---- MODULE Spec2Model ----
(***************************************************************************)
(* Model of capsat_watcher.py: the beacon parser and uploader.             *)
(*                                                                         *)
(* One process run is: check_database, the bootstrap scan over the glob    *)
(* 'beacon_*', then the watchdog observer thread dispatching creation      *)
(* events to Handler.on_created.  upload_beacon runs in whichever thread   *)
(* calls it (the main thread during the scan, the observer thread          *)
(* afterwards); its steps are parse_beacon, then one requests.post per     *)
(* entry of the decoded dict (the request, then its outcome), then the     *)
(* rename.                                                                 *)
(***************************************************************************)
EXTENDS Integers, Sequences, FiniteSets, TLC

(***************************************************************************)
(* Bounds of the model.                                                    *)
(***************************************************************************)
\* number of beacon files the environment may put in the directory
NumFiles == 2
\* number of process starts
MaxRuns == 2
\* number of non-success outcomes (rejections, transport failures) the
\* remote produces in one behaviour
MaxFaults == 1

FileIds == 1..NumFiles

(***************************************************************************)
(* BEACON_FORMAT, in the order the source text declares it.  Type codes    *)
(* are the struct format characters after the '<'.                         *)
(***************************************************************************)
BEACON_FORMAT ==
    << <<"sync", "H", 2>>,
       <<"host_id", "B", 1>>,
       <<"system_time", "I", 4>>,
       <<"custom_data0", "B", 1>>,
       <<"custom_data1", "B", 1>>,
       <<"custom_data2", "B", 1>>,
       <<"custom_data3", "B", 1>>,
       <<"quaternions0", "f", 4>>,
       <<"quaternions1", "f", 4>>,
       <<"quaternions2", "f", 4>>,
       <<"quaternions3", "f", 4>>,
       <<"rates0", "f", 4>>,
       <<"rates1", "f", 4>>,
       <<"rates2", "f", 4>>,
       <<"illumination_state", "H", 2>>,
       <<"algorithm", "B", 1>>,
       <<"battery_voltage0", "f", 4>>,
       <<"battery_voltage1", "f", 4>>,
       <<"battery_voltage2", "f", 4>>,
       <<"battery_voltage3", "f", 4>>,
       <<"battery_temperature0", "f", 4>>,
       <<"battery_temperature1", "f", 4>>,
       <<"battery_temperature2", "f", 4>>,
       <<"battery_temperature3", "f", 4>> >>

NumFields == Len(BEACON_FORMAT)

BEACON_FILE_PREFIX == "beacon_"

\* the size parse_beacon compares the peeked length with
BEACON_SIZE == 74

\* expected_record_sources = [rs[0] for rs in BEACON_FORMAT], as a set
expected_record_sources == { BEACON_FORMAT[i][1] : i \in 1..NumFields }

(***************************************************************************)
(* BEACON_FORMAT is a set literal: iterating it yields its entries in an   *)
(* order fixed by the string hashes of the process, not by the source      *)
(* text.  An iteration order is a permutation of 1..NumFields; the model   *)
(* draws it, once per process start, from IterationOrders.                 *)
(***************************************************************************)
DeclOrder == [i \in 1..NumFields |-> i]
RevOrder == [i \in 1..NumFields |-> NumFields + 1 - i]

IterationOrders == {DeclOrder, RevOrder}

(***************************************************************************)
(* struct.unpack for the four format characters, little-endian.  A float   *)
(* is kept as its IEEE-754 binary32 fields <<sign, exponent, mantissa>>.   *)
(* The result is the 1-tuple unpack returns.                               *)
(***************************************************************************)
unpack(t, b) ==
    CASE t = "B" -> << b[1] >>
      [] t = "H" -> << b[1] + 256 * b[2] >>
      [] t = "I" -> << b[1] + 256 * b[2] + 65536 * b[3] + 16777216 * b[4] >>
      [] t = "f" -> << << b[4] \div 128,
                          (b[4] % 128) * 2 + (b[3] \div 128),
                          (b[3] % 128) * 65536 + b[2] * 256 + b[1] >> >>

(***************************************************************************)
(* struct.pack for the same format characters: how a beacon buffer is      *)
(* produced from known field values.                                       *)
(***************************************************************************)
pack(t, v) ==
    CASE t = "B" -> << v >>
      [] t = "H" -> << v % 256, v \div 256 >>
      [] t = "I" -> << v % 256, (v \div 256) % 256, (v \div 65536) % 256,
                       v \div 16777216 >>
      [] t = "f" -> << v[3] % 256, (v[3] \div 256) % 256,
                       (v[2] % 2) * 128 + (v[3] \div 65536),
                       v[1] * 128 + (v[2] \div 2) >>

\* The known value of field j in the beacon of file f.  Every byte of the
\* encoded buffer stays below 128 so that a '<I' read at any offset stays
\* within the integers TLC represents.
KnownValue(f, j) ==
    LET t == BEACON_FORMAT[j][2]
        a == (f * 31 + j * 5) % 128
        b == (f * 17 + j * 3) % 128
        c == (f * 5 + j * 11) % 128
        d == (f * 7 + j * 13) % 128
    IN CASE t = "B" -> a
         [] t = "H" -> a + 256 * b
         [] t = "I" -> a + 256 * b + 65536 * c + 16777216 * d
         [] t = "f" -> << 0, 2 * d, a + 256 * b + 65536 * c >>

RECURSIVE EncodeFrom(_, _)
EncodeFrom(f, j) ==
    IF j > NumFields THEN << >>
    ELSE pack(BEACON_FORMAT[j][2], KnownValue(f, j)) \o EncodeFrom(f, j + 1)

\* the 74-byte buffer holding the known values of file f in declaration order
EncodeBeacon(f) == EncodeFrom(f, 1)

(***************************************************************************)
(* File names.  A name is a sequence of prefixes followed by a time stamp; *)
(* 'beacon_2021-10-19_14:30:01' is                                         *)
(* [prefix |-> <<"beacon_">>, stamp |-> [Y |-> 2021, ..., s |-> 1]].       *)
(***************************************************************************)
Stamp(f) == [Y |-> 2021, M |-> 10, D |-> 19, h |-> 14, m |-> 30, s |-> f]
\* a stamp strptime rejects (month 13)
BadStamp(f) == [Y |-> 2021, M |-> 13, D |-> 19, h |-> 14, m |-> 30, s |-> f]

\* the files the environment may create: a well-formed beacon, beacons one
\* byte short and much too short, a beacon with a malformed name, and a file
\* that is not a beacon
FileKinds ==
    { [nm |-> "beacon", len |-> BEACON_SIZE],
      [nm |-> "beacon", len |-> BEACON_SIZE - 1],
      [nm |-> "beacon", len |-> 10],
      [nm |-> "bad", len |-> BEACON_SIZE],
      [nm |-> "other", len |-> BEACON_SIZE] }

Content(f, len) ==
    IF len <= BEACON_SIZE THEN SubSeq(EncodeBeacon(f), 1, len)
    ELSE EncodeBeacon(f) \o [i \in 1..(len - BEACON_SIZE) |-> 0]

NoFile ==
    [exists |-> FALSE, name |-> [prefix |-> << >>, stamp |-> Stamp(0)],
     bytes |-> << >>]

MakeFile(f, kind) ==
    [exists |-> TRUE,
     name |-> [prefix |-> IF kind.nm = "other" THEN <<"other_">>
                          ELSE <<BEACON_FILE_PREFIX>>,
               stamp |-> IF kind.nm = "bad" THEN BadStamp(f) ELSE Stamp(f)],
     bytes |-> Content(f, kind.len)]

\* every file the environment may drop, by file id and kind
Dropped == [f \in FileIds |-> [kind \in FileKinds |-> MakeFile(f, kind)]]

\* startswith as a substring test, which is also what the glob
\* '*' + BEACON_FILE_PREFIX + '*' matches
contains(name, prefix) ==
    \E n \in 1..Len(name.prefix) : name.prefix[n] = prefix

\* str.startswith(BEACON_FILE_PREFIX), which is also what the glob
\* BEACON_FILE_PREFIX + '*' matches
startswith(name, prefix) == Len(name.prefix) >= 1 /\ name.prefix[1] = prefix

\* 'processed_' + beacon_path.name
ProcessedName(name) ==
    [name EXCEPT !.prefix = <<"processed_">> \o name.prefix]

(***************************************************************************)
(* datetime.strptime(name, "beacon_%Y-%m-%d_%H:%M:%S"), .replace(tzinfo)   *)
(* and .isoformat()                                                        *)
(***************************************************************************)
DaysIn(Y, M) ==
    IF M \in {4, 6, 9, 11} THEN 30
    ELSE IF M = 2
         THEN (IF Y % 4 = 0 /\ (Y % 100 # 0 \/ Y % 400 = 0) THEN 29 ELSE 28)
         ELSE 31

strptime_ok(name) ==
    /\ name.prefix = <<BEACON_FILE_PREFIX>>
    /\ name.stamp.Y \in 1..9999
    /\ name.stamp.M \in 1..12
    /\ name.stamp.D \in 1..DaysIn(name.stamp.Y, name.stamp.M)
    /\ name.stamp.h \in 0..23
    /\ name.stamp.m \in 0..59
    /\ name.stamp.s \in 0..61

NoDate == [Y |-> 0, M |-> 0, D |-> 0, h |-> 0, m |-> 0, s |-> 0, tz |-> "none"]

strptime(name) ==
    [Y |-> name.stamp.Y, M |-> name.stamp.M, D |-> name.stamp.D,
     h |-> name.stamp.h, m |-> name.stamp.m, s |-> name.stamp.s, tz |-> "UTC"]

isoformat(date) ==
    [ymd |-> <<date.Y, date.M, date.D>>, sep |-> "T",
     hms |-> <<date.h, date.m, date.s>>,
     offset |-> IF date.tz = "UTC" THEN "+00:00" ELSE ""]

(***************************************************************************)
(* State.                                                                  *)
(***************************************************************************)
VARIABLES
    run,                    \* number of this process start
    order,                  \* iteration order of BEACON_FORMAT in this process
    files,                  \* the watched directory: file id -> file
    error_html,             \* the file error.html: << >> or <<body>>
    pcMain,                 \* position of the main thread in main()
    django_record_sources,  \* the list check_database fetched
    scan,                   \* paths the bootstrap for-loop has still to visit
    observer,               \* the observer thread: unstarted, alive or dead
    events,                 \* creation events queued for the observer thread
    task,                   \* per thread: the frame of upload_beacon
    faults,                 \* non-success outcomes produced so far
    requests,               \* history: per file, the handlings of this run
    globbed,                \* history: the paths the glob of this run matched
    prevFailed,             \* history: files whose handling failed in the previous run
    schemaOk                \* history: outcome of the comparison in check_database

vars ==
    << run, order, files, error_html, pcMain, django_record_sources, scan,
       observer, events, task, faults, requests, globbed, prevFailed,
       schemaOk >>

Threads == {"main", "watcher"}

IdleTask ==
    [pc |-> "idle", fid |-> 0, path |-> NoFile.name, date |-> NoDate,
     data |-> << >>, k |-> 0]

\* results of a handling that count as a failure of that beacon
FailedResults == {"rejected", "ConnectionError", "ValueError", "struct.error"}

NewHandling(path) ==
    [path |-> path, reqs |-> << >>, result |-> "running", opened |-> FALSE,
     sizeError |-> FALSE, attempts |-> 0, num_bytes |-> 0, decoded |-> FALSE,
     artifact |-> FALSE]

\* the handling of file f now in progress or last finished
Current(f) == requests[f][Len(requests[f])]

SetCurrent(f, h) == [requests EXCEPT ![f][Len(requests[f])] = h]

\* the file a path names
FidOf(path) == CHOOSE f \in FileIds : files[f].exists /\ files[f].name = path

ToSet(seq) == { seq[i] : i \in 1..Len(seq) }

\* all orders in which a directory listing can yield the elements of S
Listings(S) ==
    { q \in [1..Cardinality(S) -> S] : { q[i] : i \in 1..Cardinality(S) } = S }

(***************************************************************************)
(* What GET /api/objects/record_sources/ may return.                       *)
(***************************************************************************)
ExactSources == [i \in 1..NumFields |-> BEACON_FORMAT[i][1]]
ShuffledSources ==
    [i \in 1..(NumFields + 1) |->
        IF i = NumFields + 1 THEN "sync" ELSE BEACON_FORMAT[NumFields + 1 - i][1]]
MissingSources == <<"sync", "host_id">>
ExtraSources == Append(ExactSources, "extra_source")

RemoteSourceLists ==
    {ExactSources, ShuffledSources, MissingSources, ExtraSources}

(***************************************************************************)
(* Initial state: the process has just started; the directory holds any    *)
(* files the ground station dropped before.                                *)
(***************************************************************************)
Init ==
    /\ run = 1
    /\ order \in IterationOrders
    /\ files \in [FileIds -> {NoFile}]
          \cup { [f \in FileIds |-> IF f = 1 THEN Dropped[1][kind] ELSE NoFile]
                   : kind \in FileKinds }
    /\ error_html = << >>
    /\ pcMain = "check_database"
    /\ django_record_sources = << >>
    /\ scan = << >>
    /\ observer = "unstarted"
    /\ events = << >>
    /\ task = [t \in Threads |-> IdleTask]
    /\ faults = 0
    /\ requests = [f \in FileIds |-> << >>]
    /\ globbed = {}
    /\ prevFailed = {}
    /\ schemaOk = "unchecked"

(***************************************************************************)
(* The environment: the ground station drops a file into the directory.    *)
(* Once the observer thread runs, the creation is queued as an event.      *)
(***************************************************************************)
CreateFile ==
    /\ \E f \in FileIds, kind \in FileKinds :
          /\ ~files[f].exists
          /\ \A g \in FileIds : g < f => files[g].exists
          /\ files' = [files EXCEPT ![f] = Dropped[f][kind]]
          /\ events' = IF observer = "alive"
                       THEN Append(events, Dropped[f][kind].name)
                       ELSE events
    /\ UNCHANGED << run, order, error_html, pcMain, django_record_sources,
                    scan, observer, task, faults, requests, globbed,
                    prevFailed, schemaOk >>

(***************************************************************************)
(* main(), main thread.                                                    *)
(***************************************************************************)
\* check_database, the request: the GET fails (transport error, or an error
\* status that raise_for_status raises on), or it returns a list of names
FetchRecordSources ==
    /\ pcMain = "check_database"
    /\ \/ /\ pcMain' = "crashed"
          /\ UNCHANGED django_record_sources
       \/ /\ django_record_sources' \in RemoteSourceLists
          /\ pcMain' = "compare"
    /\ UNCHANGED << run, order, files, error_html, scan, observer, events,
                    task, faults, requests, globbed, prevFailed, schemaOk >>

\* SourcesDiffer that only looks for missing names
SourcesMissing(got) == ~(expected_record_sources \subseteq ToSet(got))

\* set(django_record_sources) != set(expected_record_sources)
SourcesDiffer(got) == ToSet(got) # expected_record_sources

\* CompareRecordSources in a main() that starts the observer before the
\* bootstrap scan instead of after it
CompareThenStartObserver ==
    /\ pcMain = "compare"
    /\ pcMain' = IF SourcesDiffer(django_record_sources)
                 THEN "crashed" ELSE "glob"
    /\ schemaOk' = IF SourcesDiffer(django_record_sources)
                   THEN "mismatch" ELSE "passed"
    /\ observer' = IF SourcesDiffer(django_record_sources)
                   THEN observer ELSE "alive"
    /\ django_record_sources' = << >>
    /\ UNCHANGED << run, order, files, error_html, scan, events,
                    task, faults, requests, globbed, prevFailed >>

\* check_database, the comparison: "raise Exception" when the sets differ,
\* return to main otherwise
CompareRecordSources ==
    /\ pcMain = "compare"
    /\ pcMain' = IF SourcesDiffer(django_record_sources)
                 THEN "crashed" ELSE "glob"
    /\ schemaOk' = IF SourcesDiffer(django_record_sources)
                   THEN "mismatch" ELSE "passed"
    /\ django_record_sources' = << >>
    /\ UNCHANGED << run, order, files, error_html, scan, observer, events,
                    task, faults, requests, globbed, prevFailed >>

\* Path(args.path).glob(BEACON_FILE_PREFIX + '*'): the directory is listed
\* once, in directory order
Glob ==
    /\ pcMain = "glob"
    /\ LET matched == { files[f].name : f \in
                          { g \in FileIds : /\ files[g].exists
                                            /\ startswith(files[g].name,
                                                          BEACON_FILE_PREFIX) } }
       IN /\ scan' \in Listings(matched)
          /\ globbed' = matched
    /\ pcMain' = "loop"
    /\ UNCHANGED << run, order, files, error_html, django_record_sources,
                    observer, events, task, faults, requests, prevFailed, schemaOk >>

\* the call upload_beacon(beacon_path=path) in thread t
CallUpload(t, path) ==
    /\ task' = [task EXCEPT ![t] =
                  [IdleTask EXCEPT !.pc = "parse", !.fid = FidOf(path),
                                   !.path = path]]
    /\ requests' = [requests EXCEPT ![FidOf(path)] =
                      Append(@, NewHandling(path))]

\* one iteration of "for beacon_path in ...glob(...)": the next path is
\* handed to upload_beacon, or the loop ends
BootstrapLoop ==
    /\ pcMain = "loop"
    /\ IF scan = << >>
       THEN /\ pcMain' = "start_observer"
            /\ UNCHANGED << scan, task, requests >>
       ELSE /\ CallUpload("main", Head(scan))
            /\ scan' = Tail(scan)
            /\ pcMain' = "uploading"
    /\ UNCHANGED << run, order, files, error_html, django_record_sources,
                    observer, events, faults, globbed, prevFailed, schemaOk >>

\* StartObserver with an observer that reports the files already present as
\* created
StartObserverReplay ==
    /\ pcMain = "start_observer"
    /\ observer' = "alive"
    /\ pcMain' = "join"
    /\ events' \in Listings({ files[f].name : f \in
                                { g \in FileIds : files[g].exists } })
    /\ UNCHANGED << run, order, files, error_html, django_record_sources,
                    scan, task, faults, requests, globbed, prevFailed,
                    schemaOk >>

\* observer.schedule(...); observer.start()
StartObserver ==
    /\ pcMain = "start_observer"
    /\ observer' = "alive"
    /\ pcMain' = "join"
    /\ UNCHANGED << run, order, files, error_html, django_record_sources,
                    scan, events, task, faults, requests, globbed, prevFailed, schemaOk >>

\* "while observer.is_alive(): observer.join(1)" ends when the thread died
MainExit ==
    /\ pcMain = "join"
    /\ observer = "dead"
    /\ pcMain' = "exited"
    /\ UNCHANGED << run, order, files, error_html, django_record_sources,
                    scan, observer, events, task, faults, requests, globbed,
                    prevFailed, schemaOk >>

(***************************************************************************)
(* Handler.on_created, observer thread: events are dispatched one by one.  *)
(***************************************************************************)
\* on_created without the test of the name's prefix
OnCreatedNoFilter ==
    /\ observer = "alive"
    /\ task["watcher"].pc = "idle"
    /\ events # << >>
    /\ events' = Tail(events)
    /\ CallUpload("watcher", Head(events))
    /\ UNCHANGED << run, order, files, error_html, pcMain,
                    django_record_sources, scan, observer, faults, globbed,
                    prevFailed, schemaOk >>

OnCreated ==
    /\ observer = "alive"
    /\ task["watcher"].pc = "idle"
    /\ events # << >>
    /\ events' = Tail(events)
    /\ IF ~startswith(Head(events), BEACON_FILE_PREFIX)
       THEN UNCHANGED << task, requests >>
       ELSE CallUpload("watcher", Head(events))
    /\ UNCHANGED << run, order, files, error_html, pcMain,
                    django_record_sources, scan, observer, faults, globbed,
                    prevFailed, schemaOk >>

(***************************************************************************)
(* upload_beacon and parse_beacon, in thread t.                            *)
(***************************************************************************)
\* upload_beacon leaves thread t: by return, or by an exception nothing
\* catches, which ends the process (main thread) or the observer thread
Leave(t, raised) ==
    /\ task' = [task EXCEPT ![t] = IdleTask]
    /\ IF t = "main"
       THEN /\ pcMain' = IF raised THEN "crashed" ELSE "loop"
            /\ UNCHANGED observer
       ELSE /\ observer' = IF raised THEN "dead" ELSE observer
            /\ UNCHANGED pcMain

\* f.read(s): the next s bytes at the cursor, fewer at the end of the file
read(bytes, cursor, s) ==
    SubSeq(bytes, cursor + 1,
           IF cursor + s <= Len(bytes) THEN cursor + s ELSE Len(bytes))

\* data[rs] = value on a dict kept as a sequence of <<key, value>> pairs
DictSet(data, rs, value) ==
    IF \E n \in 1..Len(data) : data[n][1] = rs
    THEN [n \in 1..Len(data) |->
            IF data[n][1] = rs THEN <<rs, value>> ELSE data[n]]
    ELSE Append(data, <<rs, value>>)

\* the entry of BEACON_FORMAT the i-th iteration of "for rs, t, s in
\* BEACON_FORMAT" yields
FormatEntry(ord, i) == BEACON_FORMAT[ord[i]]

\* the loop "for rs, t, s in BEACON_FORMAT: data[rs] = unpack(t, f.read(s))"
\* from its i-th iteration on, with one forward cursor; unpack raises
\* struct.error when a read came back short.  attempts counts the unpack
\* calls made.
RECURSIVE UnpackLoop(_, _, _, _, _)
UnpackLoop(bytes, ord, i, cursor, data) ==
    IF i > NumFields
    THEN [raised |-> FALSE, data |-> data, attempts |-> i - 1]
    ELSE LET entry == FormatEntry(ord, i)
             chunk == read(bytes, cursor, entry[3])
         IN IF Len(chunk) # entry[3]
            THEN [raised |-> TRUE, data |-> data, attempts |-> i]
            ELSE UnpackLoop(bytes, ord, i + 1, cursor + Len(chunk),
                            DictSet(data, entry[1], unpack(entry[2], chunk)))

\* parse_beacon that swallows the struct.error of a short read and returns
\* the fields unpacked so far
ParseBeaconLenient(t) ==
    /\ task[t].pc = "parse"
    /\ LET h == Current(task[t].fid)
           bytes == files[task[t].fid].bytes
           num_bytes == Len(bytes)
           parsed == UnpackLoop(bytes, order, 1, 0, << >>)
           opened == [h EXCEPT !.opened = TRUE,
                               !.num_bytes = num_bytes,
                               !.sizeError = (num_bytes # BEACON_SIZE),
                               !.attempts = parsed.attempts]
       IN IF ~strptime_ok(task[t].path)
          THEN /\ Leave(t, TRUE)
               /\ requests' = SetCurrent(task[t].fid,
                                         [h EXCEPT !.result = "ValueError"])
          ELSE IF parsed.raised /\ parsed.data = << >>
          THEN /\ Leave(t, TRUE)
               /\ requests' = SetCurrent(task[t].fid,
                     [opened EXCEPT !.result = "struct.error"])
          ELSE /\ task' = [task EXCEPT ![t].pc = "post",
                                       ![t].date = strptime(task[t].path),
                                       ![t].data = parsed.data,
                                       ![t].k = 1]
               /\ requests' = SetCurrent(task[t].fid,
                     [opened EXCEPT !.decoded = ~parsed.raised])
               /\ UNCHANGED << pcMain, observer >>
    /\ UNCHANGED << run, order, files, error_html, django_record_sources,
                    scan, events, faults, globbed, prevFailed, schemaOk >>

\* date, data = parse_beacon(beacon_path): strptime raises ValueError on a
\* name that does not match; otherwise the file is opened, a size other than
\* 74 is logged, and the fields are unpacked
ParseBeacon(t) ==
    /\ task[t].pc = "parse"
    /\ LET h == Current(task[t].fid)
           bytes == files[task[t].fid].bytes
           num_bytes == Len(bytes)
           parsed == UnpackLoop(bytes, order, 1, 0, << >>)
           opened == [h EXCEPT !.opened = TRUE,
                               !.num_bytes = num_bytes,
                               !.sizeError = (num_bytes # BEACON_SIZE),
                               !.attempts = parsed.attempts]
       IN IF ~strptime_ok(task[t].path)
          THEN /\ Leave(t, TRUE)
               /\ requests' = SetCurrent(task[t].fid,
                                         [h EXCEPT !.result = "ValueError"])
          ELSE IF parsed.raised
          THEN /\ Leave(t, TRUE)
               /\ requests' = SetCurrent(task[t].fid,
                     [opened EXCEPT !.result = "struct.error"])
          ELSE /\ task' = [task EXCEPT ![t].pc = "post",
                                       ![t].date = strptime(task[t].path),
                                       ![t].data = parsed.data,
                                       ![t].k = 1]
               /\ requests' = SetCurrent(task[t].fid,
                                         [opened EXCEPT !.decoded = TRUE])
               /\ UNCHANGED << pcMain, observer >>
    /\ UNCHANGED << run, order, files, error_html, django_record_sources,
                    scan, events, faults, globbed, prevFailed, schemaOk >>

\* requests.post(...) for the k-th item of data.items(): the request is sent
Post(t) ==
    /\ task[t].pc = "post"
    /\ LET h == Current(task[t].fid)
           req == [source |-> task[t].data[task[t].k][1],
                   created_at |-> isoformat(task[t].date),
                   value |-> task[t].data[task[t].k][2],
                   resp |-> "pending"]
       IN requests' = SetCurrent(task[t].fid,
                                 [h EXCEPT !.reqs = Append(@, req)])
    /\ task' = [task EXCEPT ![t].pc = "wait"]
    /\ UNCHANGED << run, order, files, error_html, pcMain,
                    django_record_sources, scan, observer, events, faults,
                    globbed, prevFailed, schemaOk >>

\* r.content of the non-success response to a request: the remote's error
\* page, which names the record it rejected
Body(req) == [rejected |-> req.created_at]

\* the handling h with its last request answered by resp
Answered(h, resp) == [h EXCEPT !.reqs[Len(h.reqs)].resp = resp]

\* requests.post returns a response with r.ok: the loop goes on to the next
\* item, or ends after the last one
ResponseOk(t) ==
    /\ task[t].pc = "wait"
    /\ requests' = SetCurrent(task[t].fid,
                              Answered(Current(task[t].fid), "ok"))
    /\ task' = [task EXCEPT
          ![t].pc = IF task[t].k = Len(task[t].data) THEN "rename" ELSE "post",
          ![t].k = @ + 1]
    /\ UNCHANGED << run, order, files, error_html, pcMain,
                    django_record_sources, scan, observer, events, faults,
                    globbed, prevFailed, schemaOk >>

\* ResponseNotOk without the "return": error.html is written and the loop
\* goes on to the next item
ResponseNotOkNoReturn(t) ==
    /\ task[t].pc = "wait"
    /\ faults < MaxFaults
    /\ faults' = faults + 1
    /\ LET h == Current(task[t].fid)
       IN /\ error_html' = << Body(h.reqs[Len(h.reqs)]) >>
          /\ requests' = SetCurrent(task[t].fid,
                [Answered(h, "rejected") EXCEPT !.artifact = TRUE])
    /\ task' = [task EXCEPT
          ![t].pc = IF task[t].k = Len(task[t].data) THEN "rename" ELSE "post",
          ![t].k = @ + 1]
    /\ UNCHANGED << run, order, files, django_record_sources, scan, events,
                    globbed, prevFailed, schemaOk, pcMain, observer >>

\* ResponseNotOk that opens error.html for appending ('ab')
ResponseNotOkAppend(t) ==
    /\ task[t].pc = "wait"
    /\ faults < MaxFaults
    /\ faults' = faults + 1
    /\ LET h == Current(task[t].fid)
       IN /\ error_html' = Append(error_html, Body(h.reqs[Len(h.reqs)]))
          /\ requests' = SetCurrent(task[t].fid,
                [Answered(h, "rejected") EXCEPT !.result = "rejected",
                                                !.artifact = TRUE])
    /\ Leave(t, FALSE)
    /\ UNCHANGED << run, order, files, django_record_sources, scan, events,
                    globbed, prevFailed, schemaOk >>

\* ResponseNotOk that only logs the error and writes no file
ResponseNotOkNoArtifact(t) ==
    /\ task[t].pc = "wait"
    /\ faults < MaxFaults
    /\ faults' = faults + 1
    /\ requests' = SetCurrent(task[t].fid,
          [Answered(Current(task[t].fid), "rejected") EXCEPT
              !.result = "rejected"])
    /\ Leave(t, FALSE)
    /\ UNCHANGED << run, order, files, error_html, django_record_sources,
                    scan, events, globbed, prevFailed, schemaOk >>

\* "if not r.ok": r.content is written to error.html and upload_beacon
\* returns
ResponseNotOk(t) ==
    /\ task[t].pc = "wait"
    /\ faults < MaxFaults
    /\ faults' = faults + 1
    /\ LET h == Current(task[t].fid)
       IN /\ error_html' = << Body(h.reqs[Len(h.reqs)]) >>
          /\ requests' = SetCurrent(task[t].fid,
                [Answered(h, "rejected") EXCEPT !.result = "rejected",
                                                !.artifact = TRUE])
    /\ Leave(t, FALSE)
    /\ UNCHANGED << run, order, files, django_record_sources, scan, events,
                    globbed, prevFailed, schemaOk >>

\* requests.post raises ConnectionError: nothing in upload_beacon or its
\* callers catches it
ResponseRaises(t) ==
    /\ task[t].pc = "wait"
    /\ faults < MaxFaults
    /\ faults' = faults + 1
    /\ requests' = SetCurrent(task[t].fid,
          [Answered(Current(task[t].fid), "ConnectionError") EXCEPT
              !.result = "ConnectionError"])
    /\ Leave(t, TRUE)
    /\ UNCHANGED << run, order, files, error_html, django_record_sources,
                    scan, events, globbed, prevFailed, schemaOk >>

\* beacon_path.rename(beacon_path.parent.joinpath('processed_' + name))
Rename(t) ==
    /\ task[t].pc = "rename"
    /\ requests' = SetCurrent(task[t].fid,
          [Current(task[t].fid) EXCEPT !.result = "processed"])
    /\ files' = [files EXCEPT ![task[t].fid].name = ProcessedName(task[t].path)]
    /\ Leave(t, FALSE)
    /\ UNCHANGED << run, order, error_html, django_record_sources, scan,
                    events, faults, globbed, prevFailed, schemaOk >>

(***************************************************************************)
(* The process is started again: after it crashed or exited, or after it   *)
(* was stopped from outside at any point.  error.html and the directory    *)
(* are what persists.                                                      *)
(***************************************************************************)
Restart ==
    /\ run < MaxRuns
    /\ run' = run + 1
    /\ order' \in IterationOrders
    /\ pcMain' = "check_database"
    /\ django_record_sources' = << >>
    /\ scan' = << >>
    /\ observer' = "unstarted"
    /\ events' = << >>
    /\ task' = [t \in Threads |-> IdleTask]
    /\ requests' = [f \in FileIds |-> << >>]
    /\ globbed' = {}
    /\ schemaOk' = "unchecked"
    /\ prevFailed' = { f \in FileIds :
                         \E n \in 1..Len(requests[f]) :
                            requests[f][n].result \in FailedResults }
    /\ UNCHANGED << files, error_html, faults >>

Next ==
    \/ CreateFile
    \/ FetchRecordSources
    \/ CompareRecordSources
    \/ Glob
    \/ BootstrapLoop
    \/ StartObserver
    \/ MainExit
    \/ OnCreated
    \/ \E t \in Threads : ParseBeacon(t)
    \/ \E t \in Threads : Post(t)
    \/ \E t \in Threads : ResponseOk(t)
    \/ \E t \in Threads : ResponseNotOk(t)
    \/ \E t \in Threads : ResponseRaises(t)
    \/ \E t \in Threads : Rename(t)
    \/ Restart

Spec == Init /\ [][Next]_vars

(***************************************************************************)
(* error.html is opened relative to the working directory and is never     *)
(* removed by the program: a start may find the file an earlier rejection  *)
(* left there.                                                             *)
(***************************************************************************)
\* r.content of a rejection of an earlier beacon (second 0 of the minute)
StaleBody ==
    Body([created_at |-> isoformat(strptime([stamp |-> Stamp(0)]))])

InitStale ==
    /\ run = 1
    /\ order \in IterationOrders
    /\ files \in [FileIds -> {NoFile}]
          \cup { [f \in FileIds |-> IF f = 1 THEN Dropped[1][kind] ELSE NoFile]
                   : kind \in FileKinds }
    /\ error_html = << StaleBody >>
    /\ pcMain = "check_database"
    /\ django_record_sources = << >>
    /\ scan = << >>
    /\ observer = "unstarted"
    /\ events = << >>
    /\ task = [t \in Threads |-> IdleTask]
    /\ faults = 0
    /\ requests = [f \in FileIds |-> << >>]
    /\ globbed = {}
    /\ prevFailed = {}
    /\ schemaOk = "unchecked"

SpecStale == InitStale /\ [][Next]_vars

(***************************************************************************)
(* Observer is the class watchdog picks for the platform.  An observer     *)
(* that does not pair the two halves of a rename (polling, kqueue) reports *)
(* the new name 'processed_...' as a created file, and on_created is       *)
(* called with it.                                                         *)
(***************************************************************************)
RenameSeenAsCreate(t) ==
    /\ task[t].pc = "rename"
    /\ requests' = SetCurrent(task[t].fid,
          [Current(task[t].fid) EXCEPT !.result = "processed"])
    /\ files' = [files EXCEPT ![task[t].fid].name = ProcessedName(task[t].path)]
    /\ events' = IF observer = "alive"
                 THEN Append(events, ProcessedName(task[t].path))
                 ELSE events
    /\ Leave(t, FALSE)
    /\ UNCHANGED << run, order, error_html, django_record_sources, scan,
                    faults, globbed, prevFailed, schemaOk >>

NextMoved ==
    \/ CreateFile
    \/ FetchRecordSources
    \/ CompareRecordSources
    \/ Glob
    \/ BootstrapLoop
    \/ StartObserver
    \/ MainExit
    \/ OnCreated
    \/ \E t \in Threads : ParseBeacon(t)
    \/ \E t \in Threads : Post(t)
    \/ \E t \in Threads : ResponseOk(t)
    \/ \E t \in Threads : ResponseNotOk(t)
    \/ \E t \in Threads : ResponseRaises(t)
    \/ \E t \in Threads : RenameSeenAsCreate(t)
    \/ Restart

SpecMoved == Init /\ [][NextMoved]_vars

(***************************************************************************)
(* One run with a remote that answers every request, ok or not ok, and     *)
(* threads that keep running: a thread that can take its next step takes   *)
(* it.  Files arrive when the ground station chooses.                      *)
(***************************************************************************)
NextLive ==
    \/ CreateFile
    \/ FetchRecordSources
    \/ CompareRecordSources
    \/ Glob
    \/ BootstrapLoop
    \/ StartObserver
    \/ MainExit
    \/ OnCreated
    \/ \E t \in Threads : ParseBeacon(t)
    \/ \E t \in Threads : Post(t)
    \/ \E t \in Threads : ResponseOk(t)
    \/ \E t \in Threads : ResponseNotOk(t)
    \/ \E t \in Threads : Rename(t)

\* the steps of the two threads and the answers of the remote, but for the
\* call of parse_beacon
ThreadStep ==
    \/ FetchRecordSources
    \/ CompareRecordSources
    \/ Glob
    \/ BootstrapLoop
    \/ StartObserver
    \/ MainExit
    \/ OnCreated
    \/ \E t \in Threads : Post(t)
    \/ \E t \in Threads : ResponseOk(t)
    \/ \E t \in Threads : ResponseNotOk(t)
    \/ \E t \in Threads : Rename(t)

\* parse_beacon returns or raises: ParseBeacon(t) is enabled exactly while
\* thread t is at "parse" and every ParseBeacon(t) step leaves "parse", so
\* this is WF_vars(ParseBeacon(t))
ParseEnds == \A t \in Threads : []<>(task[t].pc # "parse")

SpecLive == Init /\ [][NextLive]_vars /\ WF_vars(ThreadStep) /\ ParseEnds

(***************************************************************************)
(* What the remote has stored outlives the process.  Here the log of the   *)
(* requests is kept over a restart, as the remote keeps the records it     *)
(* created: a handling the stop cut short is closed as "killed", and the   *)
(* next run's handlings are appended after those of the run before.  The   *)
(* process is started again after it ended, after it was stopped between   *)
(* two beacons, or after it was stopped between the last answer and the    *)
(* rename.                                                                 *)
(***************************************************************************)
RestartKeepingLog ==
    /\ run < MaxRuns
    /\ \/ pcMain \in {"crashed", "exited"}
       \/ \A t \in Threads : task[t].pc = "idle"
       \/ \E t \in Threads : task[t].pc = "rename"
    /\ run' = run + 1
    /\ order' \in IterationOrders
    /\ pcMain' = "check_database"
    /\ django_record_sources' = << >>
    /\ scan' = << >>
    /\ observer' = "unstarted"
    /\ events' = << >>
    /\ task' = [t \in Threads |-> IdleTask]
    /\ requests' = [f \in FileIds |->
                      [n \in 1..Len(requests[f]) |->
                         IF requests[f][n].result = "running"
                         THEN [requests[f][n] EXCEPT !.result = "killed"]
                         ELSE requests[f][n]]]
    /\ globbed' = {}
    /\ schemaOk' = "unchecked"
    /\ prevFailed' = { f \in FileIds :
                         \E n \in 1..Len(requests[f]) :
                            requests[f][n].result \in FailedResults }
    /\ UNCHANGED << files, error_html, faults >>

NextRemote ==
    \/ CreateFile
    \/ FetchRecordSources
    \/ CompareRecordSources
    \/ Glob
    \/ BootstrapLoop
    \/ StartObserver
    \/ MainExit
    \/ OnCreated
    \/ \E t \in Threads : ParseBeacon(t)
    \/ \E t \in Threads : Post(t)
    \/ \E t \in Threads : ResponseOk(t)
    \/ \E t \in Threads : ResponseNotOk(t)
    \/ \E t \in Threads : ResponseRaises(t)
    \/ \E t \in Threads : Rename(t)
    \/ RestartKeepingLog

SpecRemote == Init /\ [][NextRemote]_vars

(***************************************************************************)
(* A writer that creates the beacon file and writes its bytes afterwards.  *)
(* The creation is what the observer reports; the write that follows       *)
(* raises no creation event.                                               *)
(***************************************************************************)
\* open(path, 'wb') by the writer: the file exists and is empty
CreateEmpty ==
    /\ \E f \in FileIds :
          /\ ~files[f].exists
          /\ \A g \in FileIds : g < f => files[g].exists
          /\ files' = [files EXCEPT ![f] =
                          MakeFile(f, [nm |-> "beacon", len |-> 0])]
          /\ events' = IF observer = "alive"
                       THEN Append(events,
                               MakeFile(f, [nm |-> "beacon", len |-> 0]).name)
                       ELSE events
    /\ UNCHANGED << run, order, error_html, pcMain, django_record_sources,
                    scan, observer, task, faults, requests, globbed,
                    prevFailed, schemaOk >>

\* the writer writes the 74 bytes of the beacon and closes the file
WriteBytes ==
    /\ \E f \in FileIds :
          /\ files[f].exists
          /\ files[f].bytes = << >>
          /\ files' = [files EXCEPT ![f].bytes = Content(f, BEACON_SIZE)]
    /\ UNCHANGED << run, order, error_html, pcMain, django_record_sources,
                    scan, observer, events, task, faults, requests, globbed,
                    prevFailed, schemaOk >>

NextWriter ==
    \/ Next
    \/ CreateEmpty
    \/ WriteBytes

SpecWriter == Init /\ [][NextWriter]_vars

(***************************************************************************)
(* The shutdown signal.  SIGINT raises KeyboardInterrupt in the main       *)
(* thread, wherever it is.  Inside "try: while observer.is_alive(): ..."   *)
(* the finally clause runs observer.stop() and observer.join(): the        *)
(* observer thread finishes the handler it is in and ends.  Anywhere       *)
(* before the try, nothing catches the exception: a request.post the main  *)
(* thread is blocked in is abandoned and the process ends.                 *)
(***************************************************************************)
\* the handling h abandoned by KeyboardInterrupt: a request in flight is cut
Interrupted(h) ==
    [h EXCEPT !.result = "KeyboardInterrupt",
              !.reqs = [j \in 1..Len(h.reqs) |->
                          IF h.reqs[j].resp = "pending"
                          THEN [h.reqs[j] EXCEPT !.resp = "cancelled"]
                          ELSE h.reqs[j]]]

Interrupt ==
    /\ pcMain \notin {"crashed", "exited", "interrupted", "stopping"}
    /\ IF pcMain = "join"
       THEN /\ pcMain' = "stopping"
            /\ observer' = IF observer = "alive" THEN "stopping" ELSE observer
            /\ UNCHANGED << task, requests >>
       ELSE /\ pcMain' = "interrupted"
            /\ task' = [task EXCEPT !["main"] = IdleTask]
            /\ requests' = IF task["main"].pc = "idle" THEN requests
                           ELSE SetCurrent(task["main"].fid,
                                   Interrupted(Current(task["main"].fid)))
            /\ UNCHANGED observer
    /\ UNCHANGED << run, order, files, error_html, django_record_sources,
                    scan, events, faults, globbed, prevFailed, schemaOk >>

\* the observer thread, told to stop, leaves its loop once the handler it
\* was in has returned
ObserverStops ==
    /\ observer = "stopping"
    /\ task["watcher"].pc = "idle"
    /\ observer' = "dead"
    /\ UNCHANGED << run, order, files, error_html, pcMain,
                    django_record_sources, scan, events, task, faults,
                    requests, globbed, prevFailed, schemaOk >>

\* "finally: observer.stop(); observer.join()" returns and main ends
JoinAfterStop ==
    /\ pcMain = "stopping"
    /\ observer = "dead"
    /\ pcMain' = "exited"
    /\ UNCHANGED << run, order, files, error_html, django_record_sources,
                    scan, observer, events, task, faults, requests, globbed,
                    prevFailed, schemaOk >>

NextSignal ==
    \/ Next
    \/ Interrupt
    \/ ObserverStops
    \/ JoinAfterStop

SpecSignal == Init /\ [][NextSignal]_vars

(***************************************************************************)
(* Properties.                                                             *)
(***************************************************************************)
\* the handlings of this run, as <<file, index>> pairs
Handlings == { <<f, n>> \in FileIds \X (1..(NumFiles + 2)) : n <= Len(requests[f]) }

\* the name a beacon file had when it was dropped into the directory
OriginalName(f) == [prefix |-> <<BEACON_FILE_PREFIX>>, stamp |-> files[f].name.stamp]

\* the source names of a handling's requests are pairwise different
DistinctSources(h) ==
    \A a, b \in 1..Len(h.reqs) : h.reqs[a].source = h.reqs[b].source => a = b

\* C1: partial failure.  In a handling where the N-th request is the first
\* to receive a non-success response, the requests before it are the items
\* 1..N-1 of the decoded dict, each sent once and answered ok, no request
\* follows the N-th, and the file still has the name it was handled under.
C1_PartialFailure ==
    \A x \in Handlings :
        LET f == x[1]
            h == requests[f][x[2]]
        IN (\E j \in 1..Len(h.reqs) : h.reqs[j].resp = "rejected") =>
              LET N == CHOOSE j \in 1..Len(h.reqs) :
                          /\ h.reqs[j].resp = "rejected"
                          /\ \A a \in 1..(j - 1) : h.reqs[a].resp # "rejected"
              IN /\ N \in 1..NumFields
                 /\ \A a \in 1..(N - 1) :
                       /\ h.reqs[a].resp = "ok"
                       /\ h.reqs[a].source = FormatEntry(order, a)[1]
                 /\ DistinctSources(h)
                 /\ Len(h.reqs) = N
                 /\ h.result = "rejected"
                 /\ files[f].name = h.path
                 /\ h.path = OriginalName(f)
                 /\ \A t \in Threads : task[t].fid # f

\* C1 witness: a beacon was rejected at its fifth request and the run went
\* on to watch the directory
C1_Witness ==
    /\ pcMain = "join"
    /\ \E f \in FileIds :
          /\ Len(requests[f]) = 1
          /\ requests[f][1].result = "rejected"
          /\ Len(requests[f][1].reqs) = 5

\* file f carries the processed marker: 'processed_' + its original name
IsProcessed(f) ==
    files[f].exists /\ files[f].name = ProcessedName(OriginalName(f))

\* C2: idempotence of the processed marker.  Once a file is named
\* 'processed_' + original name, no step selects it again: the glob of this
\* or a later run does not match it, no thread is handed it, no handling of
\* it begins, no request is added for it, and it is not renamed again.
C2_Idempotence ==
    [][\A f \in FileIds :
          IsProcessed(f) =>
             /\ files'[f] = files[f]
             /\ \/ requests'[f] = requests[f]
                \/ run' = run + 1 /\ requests'[f] = << >>
             /\ files[f].name \notin globbed'
             /\ files[f].name \notin ToSet(scan')
             /\ \A t \in Threads : task'[t].fid # f]_vars

\* C2 witness: a file processed in the first run went through the bootstrap
\* scan of the second run, now watching, without being handled
C2_Witness ==
    /\ run = 2
    /\ pcMain = "join"
    /\ \E f \in FileIds : IsProcessed(f) /\ requests[f] = << >>

\* the handling h issued one request per BEACON_FORMAT name, all carrying
\* the created_at derived from the file name, and every one was answered ok
FullSuccess(h) ==
    /\ Len(h.reqs) = NumFields
    /\ { h.reqs[j].source : j \in 1..Len(h.reqs) } = expected_record_sources
    /\ \A j \in 1..Len(h.reqs) :
          /\ h.reqs[j].resp = "ok"
          /\ strptime_ok(h.path)
          /\ h.reqs[j].created_at = isoformat(strptime(h.path))

\* C3: the processed marker means full success.  A file is renamed only by
\* a handling that issued exactly 24 requests, one per name, with the
\* created_at of the file name, all answered ok; and a handling with 24 ok
\* answers has renamed the file or is at the rename.
C3_ProcessedOnlyAfterFullSuccess ==
    /\ [][\A f \in FileIds :
             (files[f].exists /\ files'[f].name # files[f].name) =>
                /\ files'[f].name = ProcessedName(files[f].name)
                /\ requests'[f] # << >>
                /\ FullSuccess(requests'[f][Len(requests'[f])])
                /\ requests'[f][Len(requests'[f])].result = "processed"]_vars
    /\ [](\A x \in Handlings :
             LET f == x[1]
                 h == requests[f][x[2]]
             IN /\ h.result = "processed" => FullSuccess(h) /\ IsProcessed(f)
                /\ (Len(h.reqs) = NumFields
                      /\ \A j \in 1..NumFields : h.reqs[j].resp = "ok") =>
                      \/ h.result = "processed" /\ IsProcessed(f)
                      \/ \E t \in Threads :
                            task[t].fid = f /\ task[t].pc = "rename")

\* C3 witness: a file was processed in this run
C3_Witness ==
    \E f \in FileIds :
        /\ IsProcessed(f)
        /\ requests[f] # << >>
        /\ requests[f][1].result = "processed"

\* C4: upload ordering.  The sources of the requests of every handling
\* follow the declaration order of BEACON_FORMAT, and a request is issued
\* only when every earlier one has been answered.  (Violated: the requests
\* follow the iteration order of the set BEACON_FORMAT.)
C4_DeclarationOrder ==
    \A x \in Handlings :
        LET h == requests[x[1]][x[2]]
        IN /\ \A j \in 1..Len(h.reqs) : h.reqs[j].source = BEACON_FORMAT[j][1]
           /\ \A j \in 1..(Len(h.reqs) - 1) : h.reqs[j].resp = "ok"

\* the offset of the j-th declared field: the widths declared before it
RECURSIVE DeclOffset(_)
DeclOffset(j) == IF j = 1 THEN 0 ELSE DeclOffset(j - 1) + BEACON_FORMAT[j - 1][3]

\* C5: decode places every field in its slot.  Once parse_beacon has
\* returned for a 74-byte buffer encoded from known values, every name maps
\* to the value unpacked from the bytes at its declared offset, which is the
\* known value.  (Violated: the cursor follows the iteration order of the
\* set BEACON_FORMAT.)
C5_RoundTrip ==
    \A t \in Threads :
        (task[t].pc \in {"post", "wait", "rename"}
           /\ Len(files[task[t].fid].bytes) = BEACON_SIZE) =>
           /\ Len(task[t].data) = NumFields
           /\ \A j \in 1..NumFields :
                 \E n \in 1..Len(task[t].data) :
                    /\ task[t].data[n][1] = BEACON_FORMAT[j][1]
                    /\ task[t].data[n][2] =
                          unpack(BEACON_FORMAT[j][2],
                                 read(files[task[t].fid].bytes, DeclOffset(j),
                                      BEACON_FORMAT[j][3]))
                    /\ task[t].data[n][2] = << KnownValue(task[t].fid, j) >>

\* nothing of the ingestion has happened in this run
NoIngestion ==
    /\ \A f \in FileIds : requests[f] = << >>
    /\ \A t \in Threads : task[t] = IdleTask
    /\ globbed = {}
    /\ scan = << >>
    /\ observer = "unstarted"

\* C6: the schema check gates all ingestion.  The comparison passes exactly
\* when the fetched names, as a set, equal the 24 expected names; when it
\* does not pass the process is dead and no file was opened, decoded,
\* uploaded or renamed and the observer was not started; when it passes main
\* goes on to the bootstrap scan.
C6_SchemaCheckGates ==
    /\ [][(pcMain = "compare" /\ pcMain' # "compare" /\ run' = run) =>
             /\ (schemaOk' = "passed") =
                   (ToSet(django_record_sources) = expected_record_sources)
             /\ (schemaOk' = "mismatch") =
                   (ToSet(django_record_sources) # expected_record_sources)
             /\ schemaOk' = "passed" => pcMain' = "glob"]_vars
    /\ [][(schemaOk' # "passed" /\ run' = run) =>
             \A f \in FileIds : files[f].exists => files'[f] = files[f]]_vars
    /\ [](schemaOk = "mismatch" => pcMain = "crashed")
    /\ [](schemaOk # "passed" => NoIngestion)

\* C6 witness: the check failed with a beacon waiting in the directory
C6_Witness ==
    /\ schemaOk = "mismatch"
    /\ \E f \in FileIds :
          files[f].exists /\ startswith(files[f].name, BEACON_FILE_PREFIX)

\* C7: per-beacon errors do not stop ingestion.  After a handling failed,
\* with a decode error or an upload error, the main thread has not died and
\* the observer thread is not dead.  (Violated: no caller catches the
\* exceptions of parse_beacon and requests.post.)
C7_ErrorsDoNotStopIngestion ==
    \A x \in Handlings :
        requests[x[1]][x[2]].result \in FailedResults =>
           /\ pcMain \notin {"crashed", "exited"}
           /\ observer # "dead"

\* the handlings that are under way
Running == { x \in Handlings : requests[x[1]][x[2]].result = "running" }

\* C8: beacons are handled one at a time.  At most one handling is under
\* way; while the main thread runs upload_beacon the observer thread does
\* not exist, and the observer thread handles events only while the main
\* thread sits in the join loop.
C8_OneAtATime ==
    /\ Cardinality(Running) <= 1
    /\ Cardinality({ t \in Threads : task[t].pc # "idle" }) <= 1
    /\ task["main"].pc # "idle" => observer = "unstarted"
    /\ task["watcher"].pc # "idle" => pcMain = "join"

\* C8 witness: the observer thread handles an event after the bootstrap
\* scan handled another beacon
C8_Witness ==
    /\ task["watcher"].pc = "wait"
    /\ \E f \in FileIds :
          /\ f # task["watcher"].fid
          /\ requests[f] # << >>
          /\ OriginalName(f) \in globbed

\* C9: a short file does not crash decoding.  For a file shorter than 74
\* bytes that parse_beacon opened, the size anomaly is reported, the decode
\* is attempted, and neither thread dies.  (Violated: struct.error is not
\* caught.)
C9_ShortFileDoesNotCrash ==
    \A x \in Handlings :
        LET f == x[1]
            h == requests[f][x[2]]
        IN (h.opened /\ Len(files[f].bytes) < BEACON_SIZE) =>
              /\ h.sizeError
              /\ h.attempts >= 1
              /\ pcMain \notin {"crashed", "exited"}
              /\ observer # "dead"

\* C10: no retry within a run.  In one run a file is handled at most once
\* and no source is requested twice for it; a file whose handling failed
\* keeps its name and no thread works on it; and a file whose handling
\* failed in the previous run was matched by the glob of this run.
C10_NoRetryWithinRun ==
    /\ \A f \in FileIds : Len(requests[f]) <= 1
    /\ \A x \in Handlings :
          LET f == x[1]
              h == requests[f][x[2]]
          IN /\ DistinctSources(h)
             /\ h.result \in FailedResults =>
                   /\ files[f].name = h.path
                   /\ \A t \in Threads : task[t].fid # f
    /\ pcMain \in {"loop", "uploading", "start_observer", "join", "exited"} =>
          \A f \in prevFailed : OriginalName(f) \in globbed

\* C10 witness: a beacon whose handling failed in the first run is handled
\* again, and requested for again, in the second
C10_Witness ==
    /\ run = 2
    /\ \E f \in prevFailed : requests[f] # << >> /\ Len(requests[f][1].reqs) >= 1

\* C11: a transport failure ends like a remote rejection.  After the
\* N-th request of a handling raised ConnectionError, no further request
\* was made, the file keeps its name, and the thread that ran the handling
\* is back in its loop: the main thread has not died, the observer thread
\* is not dead.  (Violated: the exception is not caught.)
C11_TransportLikeRejection ==
    \A x \in Handlings :
        LET f == x[1]
            h == requests[f][x[2]]
        IN h.result = "ConnectionError" =>
              /\ h.reqs[Len(h.reqs)].resp = "ConnectionError"
              /\ \A j \in 1..(Len(h.reqs) - 1) : h.reqs[j].resp = "ok"
              /\ files[f].name = h.path
              /\ pcMain \in {"loop", "uploading", "start_observer", "join"}
              /\ observer \in {"unstarted", "alive"}

\* C12, as claimed: every failed handling, whatever the cause, left the
\* file under its name and wrote the diagnostic artifact.  (Violated: a
\* decode failure and a transport failure write nothing.)
C12_EveryFailureLeavesArtifact ==
    \A x \in Handlings :
        LET f == x[1]
            h == requests[f][x[2]]
        IN h.result \in FailedResults =>
              /\ files[f].exists
              /\ files[f].name = h.path
              /\ h.artifact
              /\ error_html # << >>

\* C12, amended: every failed handling left the file under its name; it
\* wrote error.html exactly when the failure was a response that is not ok.
C12_ArtifactOnRejectionOnly ==
    \A x \in Handlings :
        LET f == x[1]
            h == requests[f][x[2]]
        IN h.result \in FailedResults =>
              /\ files[f].exists
              /\ files[f].name = h.path
              /\ h.artifact = (h.result = "rejected")
              /\ h.artifact => error_html # << >>

\* C12 witness: in one run a beacon was rejected and a later one failed to
\* decode
C12_Witness ==
    \E f, g \in FileIds :
        /\ requests[f] # << >>
        /\ requests[g] # << >>
        /\ requests[f][1].result = "rejected"
        /\ requests[g][1].result = "struct.error"

\* C13: shutdown lets the step in flight finish.  No request is abandoned
\* by the shutdown signal, in the bootstrap phase or in the watch phase: the
\* process stops only with every request answered.  (Violated in the
\* bootstrap phase, which lies outside the try/finally of main.)
C13_ShutdownFinishesRequest ==
    \A x \in Handlings :
        LET h == requests[x[1]][x[2]]
        IN /\ \A j \in 1..Len(h.reqs) : h.reqs[j].resp # "cancelled"
           /\ pcMain \in {"interrupted", "exited"} =>
                 \A j \in 1..Len(h.reqs) : h.reqs[j].resp # "pending"

\* C14: no upload without a successful decode.  A handling has sent a
\* request only if parse_beacon returned for it; a handling that ended in a
\* name failure (ValueError) or a decode failure (struct.error) sent no
\* request, left the file under its name and did not write error.html.
C14_NoUploadWithoutDecode ==
    \A x \in Handlings :
        LET f == x[1]
            h == requests[f][x[2]]
        IN /\ h.reqs # << >> => h.decoded
           /\ h.decoded => (h.opened /\ h.attempts = NumFields)
           /\ h.result \in {"ValueError", "struct.error"} =>
                 /\ ~h.decoded
                 /\ h.reqs = << >>
                 /\ files[f].exists
                 /\ files[f].name = h.path
                 /\ ~h.artifact

\* a short file ended in struct.error with no request, next to a beacon whose
\* decode succeeded and whose requests were sent
C14_Witness ==
    \E f, g \in FileIds :
        /\ requests[f] # << >>
        /\ requests[g] # << >>
        /\ requests[f][1].result = "struct.error"
        /\ requests[f][1].opened
        /\ requests[f][1].reqs = << >>
        /\ requests[g][1].decoded
        /\ requests[g][1].reqs # << >>

\* the last request of the last handling of file f in the request log rq
LastReq(rq, f) ==
    LET h == rq[f][Len(rq[f])]
    IN h.reqs[Len(h.reqs)]

\* C15: the diagnostic artifact holds the last failure.  The step in which a
\* request is answered by a non-success response leaves error.html holding
\* exactly the body of that response, whatever it held before; no other step
\* (an ok answer, a rename, a decode, a restart) changes error.html.
C15_ArtifactIsLastRejection ==
    [][/\ \A t \in Threads :
             (/\ task[t].pc = "wait"
              /\ run' = run
              /\ LastReq(requests', task[t].fid).resp = "rejected")
             => error_html' = << Body(LastReq(requests, task[t].fid)) >>
       /\ error_html' # error_html =>
             \E t \in Threads :
                /\ task[t].pc = "wait"
                /\ run' = run
                /\ LastReq(requests', task[t].fid).resp = "rejected"]_vars

\* C15 witness: a rejection replaced the body an earlier run had left, and
\* the beacon handled after it, all of whose requests succeeded, left the
\* new body in place
C15_Witness ==
    \E f, g \in FileIds :
        /\ f < g
        /\ requests[f] # << >>
        /\ requests[f][1].result = "rejected"
        /\ error_html = << Body(LastReq(requests, f)) >>
        /\ error_html # << StaleBody >>
        /\ requests[g] # << >>
        /\ FullSuccess(requests[g][1])
        /\ IsProcessed(g)

\* C16: events without the ingestion prefix change nothing.  The step in
\* which on_created takes an event whose name does not start with 'beacon_'
\* (a file of another name, or the 'processed_...' name a rename produced)
\* opens no file, begins no handling, sends no request, renames nothing and
\* leaves error.html alone: only the event is consumed.
C16_ForeignEventsChangeNothing ==
    [][(/\ events # << >>
        /\ events' = Tail(events)
        /\ run' = run
        /\ Head(events).prefix[1] # BEACON_FILE_PREFIX)
       => /\ requests' = requests
          /\ files' = files
          /\ error_html' = error_html
          /\ task' = task
          /\ observer' = observer
          /\ pcMain' = pcMain]_vars

\* C16 witness: the observer thread renamed a beacon it had handled, the
\* creation event for the 'processed_...' name has been taken by on_created,
\* and the thread is idle again
C16_Witness ==
    \E f \in FileIds :
        /\ IsProcessed(f)
        /\ requests[f] # << >>
        /\ OriginalName(f) \notin globbed
        /\ observer = "alive"
        /\ events = << >>
        /\ task["watcher"].pc = "idle"
        /\ Len(requests[f]) = 1

\* file f has been handled to the end in this run: processed or failed
Handled(f) ==
    /\ requests[f] # << >>
    /\ Current(f).result \in {"processed"} \cup FailedResults

\* C17: no beacon is missed within a run.  With a remote that answers every
\* request, every file that is in the watched directory under a name with
\* the prefix 'beacon_', whenever it was put there, is eventually handled in
\* this run: it reaches processed or failed.  Runs that the schema check
\* aborts or that an uncaught exception ends are left aside: the statement
\* is about the runs that go on.  (Violated by a file created after the glob
\* listed the directory and before the observer started.)
C17_NoBeaconMissed ==
    \A f \in FileIds :
        (files[f].exists /\ startswith(files[f].name, BEACON_FILE_PREFIX))
            ~> (Handled(f) \/ pcMain \in {"crashed", "exited"})

\* the requests for file f and source rs that the remote answered ok, over
\* all handlings of f
Written(f, rs) ==
    { x \in (1..Len(requests[f])) \X (1..NumFields) :
         /\ x[2] <= Len(requests[f][x[1]].reqs)
         /\ requests[f][x[1]].reqs[x[2]].source = rs
         /\ requests[f][x[1]].reqs[x[2]].resp = "ok" }

\* C18: at-most-once delivery per measurement across restarts.  Over all runs
\* on the directory, no pair of beacon file and measurement name is written
\* to the remote with success more than once.  (Violated: a beacon that
\* failed part-way, or whose handling was cut before the rename, keeps its
\* name and is uploaded again from the first field by the next run.)
C18_AtMostOnce ==
    \A f \in FileIds : \A rs \in expected_record_sources :
        Cardinality(Written(f, rs)) <= 1

\* C19: a live beacon is decoded from its complete content.  Every handling
\* that on_created began and that opened the file read the bytes the file
\* holds once its writer is done: the number of bytes parse_beacon saw is
\* the length of the file.  (Violated: the creation event is handled while
\* the writer has not yet written.)
C19_DecodedFromCompleteContent ==
    \A x \in Handlings :
        LET f == x[1]
            h == requests[f][x[2]]
        IN (h.opened /\ h.path \notin globbed) =>
              h.num_bytes = Len(files[f].bytes)

====
